---- MODULE Spec2Model ----
(***************************************************************************)
(* Whisper Studio Deluxe: the transcription pipeline of webui_deluxe.py.   *)
(* transcribe() is the handler of the "Lancer la transcription" button; it *)
(* calls download_youtube_audio, run_whisper (extract_audio_if_needed,     *)
(* get_media_duration_seconds, split_long_audio, one whisper-cli process   *)
(* per chunk), make_pdf_from_text and finally updates the history list.    *)
(* Every external process (yt_dlp, ffmpeg, ffprobe, whisper-cli, fpdf) is  *)
(* a step whose outcome is chosen nondeterministically.                    *)
(*                                                                         *)
(*   Spec         the app: calls of the handler one after the other, made  *)
(*                from the form                                            *)
(*   RunSpec      the first call after the launch, with any arguments      *)
(*   LiveRunSpec  the first call, with the progress the code guarantees    *)
(*   SplitSpec    split_long_audio on any duration and threshold           *)
(*   CmdSpec      the whisper-cli loop on any language hint                *)
(*   HistSpec     text-only runs in a session that already holds a history *)
(*   HistRunSpec  one call, with any arguments, in such a session          *)
(*   OverlapSpec  two calls in flight, both about to update the history    *)
(***************************************************************************)
EXTENDS Integers, Sequences, FiniteSets, TLC

\* ------------------------------------------------------------------ bounds
\* Invocations of transcribe() in one behaviour.
MaxJobs == 2
\* The wall clock takes the values 0..MaxClock (seconds).
MaxClock == 1
\* Longest media, in chunks of max_chunk_sec.
MaxChunks == 2
\* Thresholds and durations of the stand-alone splitter runs (SplitSpec).
MaxThreshold == 4
MaxDuration == 13
\* Longest language hint of the stand-alone engine loop (CmdSpec), in characters.
MaxHint == 3

\* ------------------------------------------------------- program constants
\* split_long_audio(..., max_chunk_sec=2 * 3600)
DefaultMaxChunkSec == 2 * 3600
\* history = history[:10]
HistoryCap == 10

\* Two callers of the handler (btn.click through demo.queue).
Workers == {"w1", "w2"}

\* The true duration of a normalized audio file, in seconds.
Durations ==
    {0} \cup { c * DefaultMaxChunkSec - r : c \in 1..MaxChunks, r \in {0, 5400} }

NoPath == <<>>
NoErr == [exc |-> "none", chunk |-> 0]
NoRef == -1
NoOutcome == [ok |-> FALSE, err |-> NoErr, estimation |-> FALSE, text |-> <<>>,
              txt |-> NoPath, srt |-> NoPath, pdf |-> NoPath, json |-> NoPath,
              history |-> NoRef, history_md |-> <<>>]

\* Python strings are sequences of characters; None is a value of its own.
None == <<"None">>
Space == " "

\* The file gr.Audio(type="filepath") hands over: it lies outside OUTPUT_DIR.
Upload == <<0 - 1, "upload", 0>>

\* What the caller of transcribe() can pass.
MediaFiles == {NoPath, Upload}
Urls == {None, <<>>, <<Space>>, <<Space, "u", Space>>}
Languages == {<<>>, <<Space, "f", "r">>}
Reporters == {"gr.Progress", "None"}

Min(a, b) == IF a <= b THEN a ELSE b
Max(a, b) == IF a >= b THEN a ELSE b
Set(f, w, v) == [f EXCEPT ![w] = v]

\* ------------------------------------------------------------ pure helpers
\* str.strip()
RECURSIVE LStrip(_)
LStrip(s) == IF s # <<>> /\ Head(s) = Space THEN LStrip(Tail(s)) ELSE s

RECURSIVE RStrip(_)
RStrip(s) == IF s # <<>> /\ s[Len(s)] = Space THEN RStrip(SubSeq(s, 1, Len(s) - 1)) ELSE s

Strip(s) == RStrip(LStrip(s))

\* bool(s) of an Optional[str]
Truthy(s) == s # None /\ s # <<>>

\* `if language and language.strip(): cmd += ["-l", language.strip()]`:
\* the values that follow "-l" in cmd, none when "-l" is left out.
LanguageArgsRaw(language) == IF language # None THEN <<language>> ELSE <<>>
LanguageArgs(language) ==
    IF Truthy(language) /\ Truthy(Strip(language)) THEN <<Strip(language)>> ELSE <<>>

\* run_whisper: the whisper-cli command of one chunk
Cmd(chunk, base, language, make_srt, make_json) ==
    [f |-> chunk, otxt |-> TRUE, of |-> base, l |-> LanguageArgs(language),
     osrt |-> make_srt, oj |-> make_json]

NoCmd == [f |-> NoPath, otxt |-> FALSE, of |-> NoPath, l |-> <<>>,
          osrt |-> FALSE, oj |-> FALSE]

NoArgs == [media_file |-> NoPath, youtube_url |-> <<>>, language |-> <<>>,
           make_srt |-> FALSE, make_json |-> FALSE, progress |-> "None"]

\* A path under OUTPUT_DIR / run_id: <<run_id, kind, ordinal>>.
RunFile(rid, kind, i) == <<rid, kind, i>>

\* Path.write by an external tool: the file exists afterwards and holds what
\* job `by` wrote.
WriteFileFresh(f, p, by) == (p :> by)
WriteFile(f, p, by) == [q \in (DOMAIN f) \cup {p} |-> IF q = p THEN by ELSE f[q]]

Exists(f, p) == p \in DOMAIN f

\* run_dir.mkdir(exist_ok=True): an existing directory is taken as it is.
MkDir(ds, rid, by) == IF rid \in DOMAIN ds THEN ds ELSE (rid :> by) @@ ds

\* math.ceil(duration / max_chunk_sec)
CeilDivFloor(d, t) == d \div t
CeilDiv(d, t) == (d + t - 1) \div t

\* split_long_audio: the early return `duration <= max_chunk_sec or duration <= 0`
NoSplitPositive(d, t) == 0 < d /\ d <= t
NoSplit(d, t) == d <= t \/ d <= 0

\* split_long_audio: the ffmpeg command of chunk i: -ss start -t max_chunk_sec
CutRequestShifted(i, t, d) == [ss |-> (i + 1) * t, t |-> t, out |-> i]
CutRequest(i, t, d) == [ss |-> i * t, t |-> t, out |-> i]

\* run_whisper: f"Erreur WhisperCLI (chunk {idx+1})"
EngineErrorZeroBased(i) == [exc |-> "RuntimeError", chunk |-> i]
EngineError(i) == [exc |-> "RuntimeError", chunk |-> i + 1]

ToolError(name) == [exc |-> name, chunk |-> 0]

\* progress fractions are exact rationals <<numerator, denominator>>
Frac(n, d) == <<n, d>>
FracLeq(a, b) == a[1] * b[2] <= b[1] * a[2]
FracEq(a, b) == a[1] * b[2] = b[1] * a[2]

\* run_whisper: 0.1 + 0.8 * (idx / max(n_chunks, 1))
ChunkProgressAfter(i, n) == Frac(10 * Max(n, 1) + 90 * (i + 1), 100 * Max(n, 1))
ChunkProgress(i, n) == Frac(10 * Max(n, 1) + 80 * i, 100 * Max(n, 1))

\* "\n\n".join(full_text)
JoinTextBackwards(texts) ==
    [i \in 1..(2 * Len(texts) - 1) |->
        IF i % 2 = 1 THEN texts[Len(texts) + 1 - (i + 1) \div 2] ELSE "\n\n"]
RECURSIVE JoinText(_)
JoinText(texts) ==
    IF Len(texts) = 0 THEN <<>>
    ELSE IF Len(texts) = 1 THEN <<texts[1]>>
    ELSE <<texts[1], "\n\n">> \o JoinText(Tail(texts))

\* history.insert(0, entry)
InsertAppend(list, entry) == Append(list, entry)
Insert(list, entry) == <<entry>> \o list

\* history[:10]
TruncateNone(list) == list
Truncate(list) == SubSeq(list, 1, Min(Len(list), HistoryCap))

\* ------------------------------------------------------------------- state
VARIABLES
    now,            \* datetime.now(), in seconds
    njobs,          \* invocations of transcribe() so far
    dirs,           \* run directories under OUTPUT_DIR: run_id -> the job that made it
    fs,             \* files under OUTPUT_DIR: path -> the job that wrote it
    heap,           \* Python list objects: reference -> contents
    history_state,  \* gr.State: the reference the session holds
    pc,             \* where each call of transcribe() stands
    job,            \* the number of the invocation a worker runs
    run_id,         \* transcribe: run_id
    source,         \* "url" | "file" | "none": which input was given
    history,        \* transcribe: the local name `history` (a reference)
    args,           \* transcribe: media_file, youtube_url, language, make_srt,
                    \* make_json, progress as the caller passed them
    input_path,     \* transcribe: input_path
    dur,            \* the true duration of audio.wav (what ffprobe measures)
    duration,       \* run_whisper: duration
    max_chunk_sec,  \* split_long_audio: max_chunk_sec
    split_duration, \* split_long_audio: duration
    n_chunks,       \* split_long_audio: n_chunks
    cuts,           \* split_long_audio: the ffmpeg cut commands issued
    chunks,         \* run_whisper: chunks
    idx,            \* run_whisper: idx
    full_text,      \* run_whisper: full_text
    txt_files,      \* run_whisper: txt_files
    srt_files,      \* run_whisper: srt_files
    json_files,     \* run_whisper: json_files
    cmd,            \* run_whisper: cmd, the command of the current chunk
    pdf_file,       \* transcribe: pdf_file
    progress_log,   \* the fractions passed to progress(...)
    engine_log,     \* whisper-cli processes started and ended
    outcome,        \* what transcribe() returned
    recorded        \* every entry a run inserted into a history list, in order

clock == <<now>>
disk == <<dirs, fs>>
lists == <<heap, history_state, recorded>>
inputs == <<njobs, job, run_id, source, history, args>>
audio == <<dur, duration>>
split == <<max_chunk_sec, split_duration, n_chunks, cuts, chunks>>
loop == <<idx, full_text, txt_files, srt_files, json_files, cmd, engine_log>>
vars == <<now, njobs, dirs, fs, heap, history_state, pc, job, run_id, source,
          history, args, input_path, dur, duration, max_chunk_sec, split_duration,
          n_chunks, cuts, chunks, idx, full_text, txt_files, srt_files, json_files,
          cmd, pdf_file, progress_log, engine_log, outcome, recorded>>

Idle ==
    /\ pc = [w \in Workers |-> "idle"]
    /\ job = [w \in Workers |-> 0]
    /\ run_id = [w \in Workers |-> 0]
    /\ source = [w \in Workers |-> "none"]
    /\ history = [w \in Workers |-> NoRef]
    /\ args = [w \in Workers |-> NoArgs]
    /\ input_path = [w \in Workers |-> NoPath]
    /\ dur = [w \in Workers |-> 0]
    /\ duration = [w \in Workers |-> 0]
    /\ max_chunk_sec = [w \in Workers |-> DefaultMaxChunkSec]
    /\ split_duration = [w \in Workers |-> 0]
    /\ n_chunks = [w \in Workers |-> 0]
    /\ cuts = [w \in Workers |-> <<>>]
    /\ chunks = [w \in Workers |-> <<>>]
    /\ idx = [w \in Workers |-> 0]
    /\ full_text = [w \in Workers |-> <<>>]
    /\ txt_files = [w \in Workers |-> <<>>]
    /\ srt_files = [w \in Workers |-> <<>>]
    /\ json_files = [w \in Workers |-> <<>>]
    /\ cmd = [w \in Workers |-> NoCmd]
    /\ pdf_file = [w \in Workers |-> NoPath]
    /\ progress_log = [w \in Workers |-> <<>>]
    /\ engine_log = [w \in Workers |-> <<>>]
    /\ outcome = [w \in Workers |-> NoOutcome]

\* history_state = gr.State([]); OUTPUT_DIR.mkdir(exist_ok=True)
Init ==
    /\ now = 0
    /\ njobs = 0
    /\ dirs = <<>>
    /\ fs = <<>>
    /\ heap = (0 :> <<>>)
    /\ history_state = 0
    /\ recorded = <<>>
    /\ Idle

\* ----------------------------------------------------------------- actions
\* except Exception as e: return err, None, None, None, None, history, ""
ErrOutcomeSilent(e, h) ==
    [ok |-> FALSE, err |-> NoErr, estimation |-> FALSE, text |-> <<>>,
     txt |-> NoPath, srt |-> NoPath, pdf |-> NoPath, json |-> NoPath,
     history |-> h, history_md |-> <<>>]
ErrOutcome(e, h) ==
    [ok |-> FALSE, err |-> e, estimation |-> FALSE, text |-> <<>>,
     txt |-> NoPath, srt |-> NoPath, pdf |-> NoPath, json |-> NoPath,
     history |-> h, history_md |-> <<>>]

Swallow(w, e) ==
    /\ pc' = Set(pc, w, "record")
    /\ UNCHANGED outcome
Raise(w, e) ==
    /\ pc' = Set(pc, w, "returned")
    /\ outcome' = Set(outcome, w, ErrOutcome(e, history[w]))

\* datetime.now(): the clock never runs backwards; it is read when a run
\* starts and when it writes its history entry.
Clock == now..MaxClock

\* Everything a caller can pass to transcribe().
Args ==
    [media_file : MediaFiles, youtube_url : Urls, language : Languages,
     make_srt : BOOLEAN, make_json : BOOLEAN, progress : Reporters]

\* `if youtube_url and youtube_url.strip()` / `elif media_file` / `else`
SourceFirstFile(a) ==
    IF a.media_file # NoPath THEN "file"
    ELSE IF Truthy(a.youtube_url) /\ Truthy(Strip(a.youtube_url)) THEN "url"
    ELSE "none"
Source(a) ==
    IF Truthy(a.youtube_url) /\ Truthy(Strip(a.youtube_url)) THEN "url"
    ELSE IF a.media_file # NoPath THEN "file"
    ELSE "none"

\* transcribe, up to the choice of the source. The handler is handed the
\* reference held by history_state. It returns at once when WHISPER_BIN or
\* MODEL_PATH does not exist; otherwise it takes run_id from the clock and
\* calls progress(0.01), which raises TypeError when progress is None; then
\* it picks the source, reporting 0.05 for a URL, or returns for want of one.
Start(w) ==
    /\ pc[w] = "idle"
    /\ njobs < MaxJobs
    /\ njobs' = njobs + 1
    /\ job' = Set(job, w, njobs + 1)
    /\ history' = Set(history, w, history_state)
    /\ \E a \in Args, bin_exists \in BOOLEAN, model_exists \in BOOLEAN :
        /\ args' = Set(args, w, a)
        /\ IF ~(bin_exists /\ model_exists)
           THEN /\ pc' = Set(pc, w, "returned")
                /\ outcome' = Set(outcome, w,
                       ErrOutcome(ToolError(IF bin_exists THEN "ModelMissing"
                                                          ELSE "BinaryMissing"),
                                  history_state))
                /\ UNCHANGED <<now, run_id, source, input_path, progress_log>>
           ELSE \E t \in Clock :
                /\ now' = t
                /\ run_id' = Set(run_id, w, t)
                /\ IF a.progress = "None"
                   THEN /\ pc' = Set(pc, w, "returned")
                        /\ outcome' = Set(outcome, w,
                               ErrOutcome(ToolError("TypeError"), history_state))
                        /\ UNCHANGED <<source, input_path, progress_log>>
                   ELSE LET s == Source(a) IN
                        /\ source' = Set(source, w, s)
                        /\ input_path' = Set(input_path, w,
                               IF s = "file" THEN a.media_file ELSE NoPath)
                        /\ progress_log' = Set(progress_log, w,
                               IF s = "url" THEN <<Frac(1, 100), Frac(5, 100)>>
                                            ELSE <<Frac(1, 100)>>)
                        /\ IF s = "none"
                           THEN /\ pc' = Set(pc, w, "returned")
                                /\ outcome' = Set(outcome, w,
                                       ErrOutcome(ToolError("NoInput"), history_state))
                           ELSE /\ pc' = Set(pc, w, IF s = "url" THEN "download"
                                                                ELSE "extract")
                                /\ UNCHANGED outcome
    /\ UNCHANGED <<disk, lists, audio, split, loop, pdf_file>>

\* download_youtube_audio: mkdir, then yt_dlp downloads or raises.
Download(w) ==
    /\ pc[w] = "download"
    /\ dirs' = MkDir(dirs, run_id[w], job[w])
    /\ \/ /\ fs' = WriteFile(fs, RunFile(run_id[w], "yt_audio", 0), job[w])
          /\ input_path' = Set(input_path, w, RunFile(run_id[w], "yt_audio", 0))
          /\ pc' = Set(pc, w, "extract")
          /\ UNCHANGED outcome
       \/ /\ Raise(w, ToolError("DownloadError"))
          /\ UNCHANGED <<fs, input_path>>
    /\ UNCHANGED <<clock, lists, inputs, audio, split, loop, pdf_file, progress_log>>

\* run_whisper: mkdir, progress(0.05), extract_audio_if_needed (ffmpeg,
\* check=True) writes audio.wav or raises.
Extract(w) ==
    /\ pc[w] = "extract"
    /\ dirs' = MkDir(dirs, run_id[w], job[w])
    /\ progress_log' = Set(progress_log, w, Append(progress_log[w], Frac(5, 100)))
    /\ \/ /\ fs' = WriteFile(fs, RunFile(run_id[w], "audio", 0), job[w])
          /\ \E d \in Durations : dur' = Set(dur, w, d)
          /\ pc' = Set(pc, w, "probe")
          /\ UNCHANGED outcome
       \/ /\ Raise(w, ToolError("CalledProcessError"))
          /\ UNCHANGED <<fs, dur>>
    /\ UNCHANGED <<clock, lists, inputs, input_path, duration, split, loop, pdf_file>>

\* get_media_duration_seconds: the duration ffprobe prints, or 0.0 when
\* ffprobe fails or prints something float() rejects.
ProbeResults(w) == {dur[w], 0}

\* run_whisper: duration = get_media_duration_seconds(audio_path), then the
\* call split_long_audio(audio_path, run_dir, max_chunk_sec=2 * 3600).
Probe(w) ==
    /\ pc[w] = "probe"
    /\ \E d \in ProbeResults(w) : duration' = Set(duration, w, d)
    /\ max_chunk_sec' = Set(max_chunk_sec, w, DefaultMaxChunkSec)
    /\ pc' = Set(pc, w, "split")
    /\ UNCHANGED <<clock, disk, lists, inputs, input_path, dur, split_duration,
                   n_chunks, cuts, chunks, loop, pdf_file, progress_log, outcome>>

\* split_long_audio, up to the loop: probe again, return [audio_path] or
\* compute n_chunks.
SplitProbe(w) ==
    /\ pc[w] = "split"
    /\ \E d \in ProbeResults(w) :
        /\ split_duration' = Set(split_duration, w, d)
        /\ IF NoSplit(d, max_chunk_sec[w])
           THEN /\ chunks' = Set(chunks, w, <<RunFile(run_id[w], "audio", 0)>>)
                /\ pc' = Set(pc, w, "loop")
                /\ UNCHANGED n_chunks
           ELSE /\ n_chunks' = Set(n_chunks, w, CeilDiv(d, max_chunk_sec[w]))
                /\ pc' = Set(pc, w, "cut")
                /\ UNCHANGED chunks
    /\ UNCHANGED <<clock, disk, lists, inputs, input_path, audio, max_chunk_sec, cuts,
                   loop, pdf_file, progress_log, outcome>>

\* split_long_audio: one turn of `for i in range(n_chunks)`: ffmpeg cuts chunk i
\* (check=True) or raises; after the last turn the list is returned.
SplitCut(w) ==
    /\ pc[w] = "cut"
    /\ LET i == Len(chunks[w]) IN
        /\ i < n_chunks[w]
        /\ cuts' = Set(cuts, w,
               Append(cuts[w], CutRequest(i, max_chunk_sec[w], split_duration[w])))
        /\ \/ /\ fs' = WriteFile(fs, RunFile(run_id[w], "chunk", i), job[w])
              /\ chunks' = Set(chunks, w, Append(chunks[w], RunFile(run_id[w], "chunk", i)))
              /\ pc' = Set(pc, w, IF i + 1 = n_chunks[w] THEN "loop" ELSE "cut")
              /\ UNCHANGED outcome
           \/ /\ Raise(w, ToolError("CalledProcessError"))
              /\ UNCHANGED <<fs, chunks>>
    /\ UNCHANGED <<clock, dirs, lists, inputs, input_path, audio, max_chunk_sec,
                   split_duration, n_chunks, loop, pdf_file, progress_log>>

\* run_whisper: `for idx, chunk in enumerate(chunks)`: the next index
NextIndexSkip(i) == i + 2
NextIndex(i) == i + 1

\* run_whisper: the head of one turn of the loop: build cmd, report
\* 0.1 + 0.8 * idx / n_chunks, start whisper-cli with subprocess.run.
EngineStart(w) ==
    /\ pc[w] = "loop"
    /\ idx[w] < Len(chunks[w])
    /\ progress_log' = Set(progress_log, w,
           Append(progress_log[w], ChunkProgress(idx[w], Len(chunks[w]))))
    /\ cmd' = Set(cmd, w, Cmd(chunks[w][idx[w] + 1], RunFile(run_id[w], "transcript", idx[w]),
                              args[w].language, args[w].make_srt, args[w].make_json))
    /\ engine_log' = Set(engine_log, w, Append(engine_log[w], <<"start", idx[w]>>))
    /\ pc' = Set(pc, w, "engine")
    /\ UNCHANGED <<clock, disk, lists, inputs, input_path, audio, split, idx, full_text,
                   txt_files, srt_files, json_files, pdf_file, outcome>>

\* base.with_suffix(".txt"), ".srt", ".json"
WithSuffix(base, kind) == RunFile(base[1], kind, base[3])

\* The kinds of output a whisper-cli command asks for: -otxt, -osrt, -oj.
Requested(c) ==
    {k \in {"txt"} : c.otxt} \cup {k \in {"srt"} : c.osrt} \cup {k \in {"json"} : c.oj}

WriteFiles(f, ps, by) == [q \in (DOMAIN f) \cup ps |-> IF q \in ps THEN by ELSE f[q]]

\* `if file.exists(): files.append(file)`
Collect(files, f, p) == IF Exists(f, p) THEN Append(files, p) ELSE files

\* run_whisper: subprocess.run returns. A non-zero return code raises
\* RuntimeError. Otherwise whisper-cli has written some of the kinds of output
\* cmd asked for next to the basename, and transcript_NNN.txt, .srt and .json
\* are collected, each if it exists.
EngineReturn(w) ==
    /\ pc[w] = "engine"
    /\ engine_log' = Set(engine_log, w, Append(engine_log[w], <<"end", idx[w]>>))
    /\ LET txt_file == WithSuffix(cmd[w].of, "txt")
           srt_file == WithSuffix(cmd[w].of, "srt")
           json_file == WithSuffix(cmd[w].of, "json")
       IN
       \/ /\ Raise(w, EngineError(idx[w]))
          /\ UNCHANGED <<fs, idx, full_text, txt_files, srt_files, json_files>>
       \/ \E made \in SUBSET Requested(cmd[w]) :
           LET fs1 == WriteFiles(fs, {WithSuffix(cmd[w].of, k) : k \in made}, job[w]) IN
            /\ fs' = fs1
            /\ txt_files' = Set(txt_files, w, Collect(txt_files[w], fs1, txt_file))
            /\ full_text' = Set(full_text, w,
                   IF Exists(fs1, txt_file)
                   THEN Append(full_text[w], [by |-> fs1[txt_file], seg |-> idx[w]])
                   ELSE full_text[w])
            /\ srt_files' = Set(srt_files, w, Collect(srt_files[w], fs1, srt_file))
            /\ json_files' = Set(json_files, w, Collect(json_files[w], fs1, json_file))
            /\ idx' = Set(idx, w, NextIndex(idx[w]))
            /\ pc' = Set(pc, w, "loop")
            /\ UNCHANGED outcome
    /\ UNCHANGED <<clock, dirs, lists, inputs, input_path, audio, split, cmd, pdf_file,
                   progress_log>>

\* run_whisper after the loop: join, progress(0.95), return; transcribe then
\* reads make_pdf.
Join(w) ==
    /\ pc[w] = "loop"
    /\ idx[w] >= Len(chunks[w])
    /\ progress_log' = Set(progress_log, w, Append(progress_log[w], Frac(95, 100)))
    /\ \E make_pdf \in BOOLEAN : pc' = Set(pc, w, IF make_pdf THEN "pdf" ELSE "record")
    /\ UNCHANGED <<clock, disk, lists, inputs, input_path, audio, split, loop, pdf_file,
                   outcome>>

\* make_pdf_from_text: pdf.output writes transcript.pdf, or fpdf raises.
RenderPdf(w) ==
    /\ pc[w] = "pdf"
    /\ \/ /\ fs' = WriteFile(fs, RunFile(run_id[w], "pdf", 0), job[w])
          /\ pdf_file' = Set(pdf_file, w, RunFile(run_id[w], "pdf", 0))
          /\ pc' = Set(pc, w, "record")
          /\ UNCHANGED outcome
       \/ /\ Raise(w, ToolError("PdfError"))
          /\ UNCHANGED <<fs, pdf_file>>
    /\ UNCHANGED <<clock, dirs, lists, inputs, input_path, audio, split, loop,
                   progress_log>>

\* f"- {datetime.now()...} · {source_desc} · id={run_id}"
Entry(w, t) == [time |-> t, source_desc |-> source[w], run_id |-> run_id[w]]

\* transcribe: `history = history or []`
OrEmpty(h, fresh) == IF heap[h] = <<>> THEN fresh ELSE h

\* transcribe, the tail of the try block: pick the first artifacts, insert the
\* entry into the list (in place: the list the caller handed over changes too,
\* unless it was empty and `or []` made a new one, which nothing names once the
\* slice is taken), slice it, progress(1.0), return.
Record(w) ==
    /\ pc[w] = "record"
    /\ \E t \in Clock :
       LET list == OrEmpty(history[w], 2 * job[w] - 1)
           entry == Entry(w, t)
           inserted == Insert(IF list = history[w] THEN heap[list] ELSE <<>>, entry)
           sliced == 2 * job[w]
           text == JoinText(full_text[w])
       IN
        /\ heap' = (sliced :> Truncate(inserted))
                      @@ (IF list = history[w] THEN (list :> inserted) ELSE <<>>) @@ heap
        /\ history' = Set(history, w, sliced)
        /\ now' = t
        /\ recorded' = Append(recorded, entry)
        /\ progress_log' = Set(progress_log, w, Append(progress_log[w], Frac(1, 1)))
        /\ outcome' = Set(outcome, w,
               [ok |-> TRUE, err |-> NoErr, estimation |-> duration[w] > 0,
                text |-> IF text = <<>> THEN <<"(Transcription vide)">> ELSE text,
                txt |-> IF txt_files[w] = <<>> THEN NoPath ELSE txt_files[w][1],
                srt |-> IF srt_files[w] = <<>> THEN NoPath ELSE srt_files[w][1],
                pdf |-> pdf_file[w],
                json |-> IF json_files[w] = <<>> THEN NoPath ELSE json_files[w][1],
                history |-> sliced,
                history_md |-> Truncate(inserted)])
        /\ pc' = Set(pc, w, "returned")
    /\ UNCHANGED <<disk, history_state, njobs, job, run_id, source, args, input_path,
                   audio, split, loop, pdf_file>>

\* References some name still holds once worker w has returned.
Live(w, state) == {state} \cup {history[v] : v \in Workers \ {w}}

\* btn.click: the outputs of the handler are stored; history_state now holds
\* the list the handler returned. The handler's frame is gone.
Deliver(w) ==
    /\ pc[w] = "returned"
    /\ history_state' = outcome[w].history
    /\ heap' = [o \in (DOMAIN heap) \cap Live(w, outcome[w].history) |-> heap[o]]
    /\ pc' = Set(pc, w, "idle")
    /\ job' = Set(job, w, 0)
    /\ run_id' = Set(run_id, w, 0)
    /\ source' = Set(source, w, "none")
    /\ history' = Set(history, w, NoRef)
    /\ args' = Set(args, w, NoArgs)
    /\ input_path' = Set(input_path, w, NoPath)
    /\ dur' = Set(dur, w, 0)
    /\ duration' = Set(duration, w, 0)
    /\ max_chunk_sec' = Set(max_chunk_sec, w, DefaultMaxChunkSec)
    /\ split_duration' = Set(split_duration, w, 0)
    /\ n_chunks' = Set(n_chunks, w, 0)
    /\ cuts' = Set(cuts, w, <<>>)
    /\ chunks' = Set(chunks, w, <<>>)
    /\ idx' = Set(idx, w, 0)
    /\ full_text' = Set(full_text, w, <<>>)
    /\ txt_files' = Set(txt_files, w, <<>>)
    /\ srt_files' = Set(srt_files, w, <<>>)
    /\ json_files' = Set(json_files, w, <<>>)
    /\ cmd' = Set(cmd, w, NoCmd)
    /\ pdf_file' = Set(pdf_file, w, NoPath)
    /\ progress_log' = Set(progress_log, w, <<>>)
    /\ engine_log' = Set(engine_log, w, <<>>)
    /\ outcome' = Set(outcome, w, NoOutcome)
    /\ UNCHANGED <<clock, disk, njobs, recorded>>

Run(w) ==
    \/ Start(w)
    \/ Download(w)
    \/ Extract(w)
    \/ Probe(w)
    \/ SplitProbe(w)
    \/ SplitCut(w)
    \/ EngineStart(w)
    \/ EngineReturn(w)
    \/ Join(w)
    \/ RenderPdf(w)
    \/ Record(w)
    \/ Deliver(w)

\* A session of the form: Gradio supplies the reporter, the URL box holds a
\* string, the language box holds a hint and the JSON box is left unticked,
\* as the form shows them.
SessionArgs ==
    {a \in Args : /\ a.progress = "gr.Progress"
                  /\ a.youtube_url # None
                  /\ Truthy(Strip(a.language))
                  /\ ~a.make_json}

\* A session in which every run is given one source, an upload or a URL, and
\* asks for the text alone, the SRT box unticked too.
TextOnlyArgs ==
    {a \in SessionArgs :
        /\ ~a.make_srt
        /\ \/ a.media_file = Upload /\ a.youtube_url = <<>>
           \/ a.media_file = NoPath /\ a.youtube_url = <<Space, "u", Space>>}

\* demo.queue(max_size=10): the queue hands the handler one call at a time;
\* the calls pass arguments from A.
Session(A) ==
    \/ Start("w1") /\ args'["w1"] \in A
    \/ Download("w1")
    \/ Extract("w1")
    \/ Probe("w1")
    \/ SplitProbe("w1")
    \/ SplitCut("w1")
    \/ EngineStart("w1")
    \/ EngineReturn("w1")
    \/ Join("w1")
    \/ RenderPdf("w1")
    \/ Record("w1")
    \/ Deliver("w1")

Next == Session(SessionArgs)

Spec == Init /\ [][Next]_vars

\* The first call of the handler after the launch, on its own.
FirstRun ==
    \/ njobs = 0 /\ Start("w1")
    \/ Download("w1")
    \/ Extract("w1")
    \/ Probe("w1")
    \/ SplitProbe("w1")
    \/ SplitCut("w1")
    \/ EngineStart("w1")
    \/ EngineReturn("w1")
    \/ Join("w1")
    \/ RenderPdf("w1")
    \/ Record("w1")
    \/ Deliver("w1")

RunSpec == Init /\ [][FirstRun]_vars

\* The first call, with what the code guarantees about its progress: a step
\* of transcribe's own code is taken once it can be. The steps that wait for
\* yt_dlp, ffmpeg, ffprobe or whisper-cli (Download, Extract, Probe,
\* SplitProbe, SplitCut, EngineReturn) are taken when the tool returns:
\* subprocess.run, subprocess.check_output and extract_info are called without
\* a timeout, so nothing makes them return.
LiveRunSpec ==
    /\ Init
    /\ [][FirstRun]_vars
    /\ WF_vars(EngineStart("w1"))
    /\ WF_vars(Join("w1"))
    /\ WF_vars(RenderPdf("w1"))
    /\ WF_vars(Record("w1"))
    /\ WF_vars(Deliver("w1"))

\* ------------------------------------------- the splitter on its own inputs
\* split_long_audio(audio_path, run_dir, max_chunk_sec) called on an audio
\* file of any duration with any threshold.
SplitInit ==
    /\ now = 0
    /\ njobs = 1
    /\ dirs = (0 :> 1)
    /\ fs = (RunFile(0, "audio", 0) :> 1)
    /\ heap = (0 :> <<>>)
    /\ history_state = 0
    /\ recorded = <<>>
    /\ pc = [w \in Workers |-> IF w = "w1" THEN "split" ELSE "idle"]
    /\ job = [w \in Workers |-> IF w = "w1" THEN 1 ELSE 0]
    /\ run_id = [w \in Workers |-> 0]
    /\ source = [w \in Workers |-> IF w = "w1" THEN "file" ELSE "none"]
    /\ history = [w \in Workers |-> IF w = "w1" THEN 0 ELSE NoRef]
    /\ args = [w \in Workers |->
           IF w = "w1" THEN [NoArgs EXCEPT !.media_file = Upload, !.progress = "gr.Progress"]
           ELSE NoArgs]
    /\ input_path = [w \in Workers |-> IF w = "w1" THEN Upload ELSE NoPath]
    /\ \E d \in 0..MaxDuration :
        /\ dur = [w \in Workers |-> IF w = "w1" THEN d ELSE 0]
        /\ duration = [w \in Workers |-> IF w = "w1" THEN d ELSE 0]
    /\ \E t \in 1..MaxThreshold :
        max_chunk_sec = [w \in Workers |-> IF w = "w1" THEN t ELSE DefaultMaxChunkSec]
    /\ split_duration = [w \in Workers |-> 0]
    /\ n_chunks = [w \in Workers |-> 0]
    /\ cuts = [w \in Workers |-> <<>>]
    /\ chunks = [w \in Workers |-> <<>>]
    /\ idx = [w \in Workers |-> 0]
    /\ full_text = [w \in Workers |-> <<>>]
    /\ txt_files = [w \in Workers |-> <<>>]
    /\ srt_files = [w \in Workers |-> <<>>]
    /\ json_files = [w \in Workers |-> <<>>]
    /\ cmd = [w \in Workers |-> NoCmd]
    /\ pdf_file = [w \in Workers |-> NoPath]
    /\ progress_log = [w \in Workers |->
           IF w = "w1" THEN <<Frac(1, 100), Frac(5, 100)>> ELSE <<>>]
    /\ engine_log = [w \in Workers |-> <<>>]
    /\ outcome = [w \in Workers |-> NoOutcome]

SplitNext ==
    \/ SplitProbe("w1")
    \/ SplitCut("w1")

SplitSpec == SplitInit /\ [][SplitNext]_vars

\* --------------------------------------- the engine loop on any language hint
\* Every language a caller can pass: None, or a string of blanks and letters.
Hints == {None} \cup UNION { [1..k -> {Space, "f"}] : k \in 0..MaxHint }

\* run_whisper about to enter `for idx, chunk in enumerate(chunks)`, called on
\* an upload with any language hint and any choice of outputs, the audio in
\* 1..MaxChunks segments.
CmdInit ==
    /\ now = 0
    /\ njobs = 1
    /\ dirs = (0 :> 1)
    /\ heap = (0 :> <<>>)
    /\ history_state = 0
    /\ recorded = <<>>
    /\ pc = [w \in Workers |-> IF w = "w1" THEN "loop" ELSE "idle"]
    /\ job = [w \in Workers |-> IF w = "w1" THEN 1 ELSE 0]
    /\ run_id = [w \in Workers |-> 0]
    /\ source = [w \in Workers |-> IF w = "w1" THEN "file" ELSE "none"]
    /\ history = [w \in Workers |-> IF w = "w1" THEN 0 ELSE NoRef]
    /\ \E l \in Hints, make_srt \in BOOLEAN, make_json \in BOOLEAN :
        args = [w \in Workers |->
            IF w = "w1"
            THEN [media_file |-> Upload, youtube_url |-> <<>>, language |-> l,
                  make_srt |-> make_srt, make_json |-> make_json,
                  progress |-> "gr.Progress"]
            ELSE NoArgs]
    /\ input_path = [w \in Workers |-> IF w = "w1" THEN Upload ELSE NoPath]
    /\ max_chunk_sec = [w \in Workers |-> DefaultMaxChunkSec]
    /\ \E n \in 1..MaxChunks :
        LET d == n * DefaultMaxChunkSec - 5400 IN
        /\ dur = [w \in Workers |-> IF w = "w1" THEN d ELSE 0]
        /\ duration = dur
        /\ split_duration = dur
        /\ n_chunks = [w \in Workers |-> IF w = "w1" /\ n > 1 THEN n ELSE 0]
        /\ cuts = [w \in Workers |->
               IF w = "w1" /\ n > 1
               THEN [i \in 1..n |-> CutRequest(i - 1, DefaultMaxChunkSec, d)]
               ELSE <<>>]
        /\ chunks = [w \in Workers |->
               IF w # "w1" THEN <<>>
               ELSE IF n = 1 THEN <<RunFile(0, "audio", 0)>>
               ELSE [i \in 1..n |-> RunFile(0, "chunk", i - 1)]]
        /\ fs = [p \in {RunFile(0, "audio", 0)}
                       \cup {RunFile(0, "chunk", i) : i \in {j \in 0..(n - 1) : n > 1}}
                   |-> 1]
    /\ idx = [w \in Workers |-> 0]
    /\ full_text = [w \in Workers |-> <<>>]
    /\ txt_files = [w \in Workers |-> <<>>]
    /\ srt_files = [w \in Workers |-> <<>>]
    /\ json_files = [w \in Workers |-> <<>>]
    /\ cmd = [w \in Workers |-> NoCmd]
    /\ pdf_file = [w \in Workers |-> NoPath]
    /\ progress_log = [w \in Workers |->
           IF w = "w1" THEN <<Frac(1, 100), Frac(5, 100)>> ELSE <<>>]
    /\ engine_log = [w \in Workers |-> <<>>]
    /\ outcome = [w \in Workers |-> NoOutcome]

CmdNext ==
    \/ EngineStart("w1")
    \/ EngineReturn("w1")

CmdSpec == CmdInit /\ [][CmdNext]_vars

\* ------------------------------------------ a session with a history already
\* The list a session holds after k completed runs, most recent first.
PriorHistory(k) ==
    [i \in 1..k |-> [time |-> 0 - i, source_desc |-> "file", run_id |-> 0 - i]]

Reverse(list) == [i \in 1..Len(list) |-> list[Len(list) + 1 - i]]

\* The app after 0..HistoryCap earlier runs completed one after the other.
HistInit ==
    /\ now = 0
    /\ njobs = 0
    /\ dirs = <<>>
    /\ fs = <<>>
    /\ \E k \in 0..HistoryCap :
        /\ heap = (0 :> PriorHistory(k))
        /\ recorded = Reverse(PriorHistory(k))
    /\ history_state = 0
    /\ Idle

HistSpec == HistInit /\ [][Session(TextOnlyArgs)]_vars

\* One call of the handler in such a session.
HistRunSpec == HistInit /\ [][FirstRun]_vars

\* ----------------------------------------------- two calls in flight at once
\* transcribe() itself takes no lock: a caller that does not queue the calls
\* one behind the other can have two of them in flight.
ConcNext == \E w \in Workers : Run(w)

ConcSpec == Init /\ [][ConcNext]_vars

\* Two calls that were handed the same history list and have both come through
\* every stage up to the history update (states of ConcSpec, after 0..HistoryCap
\* earlier runs): each ran on a short upload, the first in second 0, the other
\* in second 0 or later, one chunk each, with or without a transcript file.
OverlapInit ==
    /\ njobs = 2
    /\ MaxClock >= 1
    /\ now = 1
    /\ dirs = (0 :> 1) @@ (1 :> 2)
    /\ \E k \in 0..HistoryCap :
        /\ heap = (0 :> PriorHistory(k))
        /\ recorded = Reverse(PriorHistory(k))
    /\ history_state = 0
    /\ pc = [w \in Workers |-> "record"]
    /\ job = [w \in Workers |-> IF w = "w1" THEN 1 ELSE 2]
    /\ run_id = [w \in Workers |-> IF w = "w1" THEN 0 ELSE 1]
    /\ source = [w \in Workers |-> "file"]
    /\ history = [w \in Workers |-> 0]
    /\ args = [w \in Workers |->
           [NoArgs EXCEPT !.media_file = Upload, !.progress = "gr.Progress"]]
    /\ input_path = [w \in Workers |-> Upload]
    /\ dur = [w \in Workers |-> 0]
    /\ duration = [w \in Workers |-> 0]
    /\ max_chunk_sec = [w \in Workers |-> DefaultMaxChunkSec]
    /\ split_duration = [w \in Workers |-> 0]
    /\ n_chunks = [w \in Workers |-> 0]
    /\ cuts = [w \in Workers |-> <<>>]
    /\ chunks = [w \in Workers |-> <<RunFile(run_id[w], "audio", 0)>>]
    /\ idx = [w \in Workers |-> 1]
    /\ \E wrote \in [Workers -> BOOLEAN] :
        /\ fs = [p \in {RunFile(run_id[w], "audio", 0) : w \in Workers}
                       \cup {RunFile(run_id[w], "txt", 0) : w \in {v \in Workers : wrote[v]}}
                   |-> p[1] + 1]
        /\ txt_files = [w \in Workers |->
               IF wrote[w] THEN <<RunFile(run_id[w], "txt", 0)>> ELSE <<>>]
        /\ full_text = [w \in Workers |->
               IF wrote[w] THEN <<[by |-> job[w], seg |-> 0]>> ELSE <<>>]
    /\ srt_files = [w \in Workers |-> <<>>]
    /\ json_files = [w \in Workers |-> <<>>]
    /\ cmd = [w \in Workers |->
           Cmd(chunks[w][1], RunFile(run_id[w], "transcript", 0), <<>>, FALSE, FALSE)]
    /\ pdf_file = [w \in Workers |-> NoPath]
    /\ progress_log = [w \in Workers |->
           <<Frac(1, 100), Frac(5, 100), ChunkProgress(0, 1), Frac(95, 100)>>]
    /\ engine_log = [w \in Workers |-> <<<<"start", 0>>, <<"end", 0>>>>]
    /\ outcome = [w \in Workers |-> NoOutcome]

OverlapNext ==
    \/ \E w \in Workers : Record(w)
    \/ \E w \in Workers : Deliver(w)

OverlapSpec == OverlapInit /\ [][OverlapNext]_vars

\* ------------------------------------------------------------------ claims
FirstN(list, n) == SubSeq(list, 1, Min(Len(list), n))
Last(list) == list[Len(list)]
One == Frac(1, 1)
SplitReturned(w) == pc[w] = "loop" /\ idx[w] = 0 /\ engine_log[w] = <<>>
\* The least n with n * t >= d.
LeastCover(d, t) == CHOOSE n \in 0..d : n * t >= d /\ (n - 1) * t < d

\* C1 (SplitSpec): when split_long_audio returns after probing a duration D
\* with threshold T, it returns ceil(D/T) segments if D > T and exactly one
\* segment if 0 < D <= T.
C1_SegmentCount ==
    \A w \in Workers :
        SplitReturned(w) =>
            LET D == split_duration[w]
                T == max_chunk_sec[w]
            IN /\ D > T => Len(chunks[w]) = LeastCover(D, T)
               /\ (0 < D /\ D <= T) => Len(chunks[w]) = 1

C1_Witness ==
    /\ SplitReturned("w1")
    /\ split_duration["w1"] > 2 * max_chunk_sec["w1"]
    /\ split_duration["w1"] % max_chunk_sec["w1"] # 0
    /\ Len(chunks["w1"]) >= 3

\* C2 (SplitSpec), as claimed: every cut is requested to cover exactly
\* [i*T, min((i+1)*T, D)), so that the requested lengths sum to D.
C2_RequestsClipped ==
    \A w \in Workers : \A k \in DOMAIN cuts[w] :
        LET D == split_duration[w]
            T == max_chunk_sec[w]
        IN /\ cuts[w][k].ss = (k - 1) * T
           /\ cuts[w][k].ss + cuts[w][k].t = Min(k * T, D)

\* C2 (SplitSpec), amended: segment i is requested as the window that starts
\* at i*T and is T long, the last one too; the windows are contiguous, do not
\* overlap, are written to chunk i in order, and once the split has returned
\* they are ceil(D/T) windows that cover [0, D), the last one starting before
\* D and ending at or after D.
C2_RequestsWindows ==
    \A w \in Workers :
        LET D == split_duration[w]
            T == max_chunk_sec[w]
            n == Len(cuts[w])
        IN /\ \A k \in 1..n :
                /\ cuts[w][k] = [ss |-> (k - 1) * T, t |-> T, out |-> k - 1]
                /\ k > 1 => cuts[w][k].ss = cuts[w][k - 1].ss + cuts[w][k - 1].t
           /\ \A k \in DOMAIN chunks[w] :
                n > 0 => chunks[w][k] = RunFile(run_id[w], "chunk", cuts[w][k].out)
           /\ (SplitReturned(w) /\ D > T) =>
                /\ n = Len(chunks[w])
                /\ cuts[w][n].ss < D
                /\ D <= cuts[w][n].ss + cuts[w][n].t

C2_Witness ==
    /\ SplitReturned("w1")
    /\ Len(cuts["w1"]) = 2
    /\ split_duration["w1"] < 2 * max_chunk_sec["w1"]
    /\ cuts["w1"][2].t > split_duration["w1"] - cuts["w1"][2].ss

\* C3 (RunSpec): in every run whisper-cli is started for the segments 0, 1, 2, ...
\* in this order, each at most once, a segment only after the process of the
\* segment before it has ended; a run that completes has run it exactly once
\* for each of its segments.
C3_EngineSequential ==
    \A w \in Workers :
        /\ \A k \in DOMAIN engine_log[w] :
             engine_log[w][k] = <<IF k % 2 = 1 THEN "start" ELSE "end", (k - 1) \div 2>>
        /\ Len(engine_log[w]) <= 2 * Len(chunks[w])
        /\ (pc[w] = "returned" /\ outcome[w].ok) =>
             Len(engine_log[w]) = 2 * Len(chunks[w])

C3_Witness ==
    /\ pc["w1"] = "returned"
    /\ outcome["w1"].ok
    /\ Len(chunks["w1"]) >= 2
    /\ Len(engine_log["w1"]) = 2 * Len(chunks["w1"])

EngineFailed(w) == pc[w] = "returned" /\ outcome[w].err.exc = "RuntimeError"
\* The 0-based index of the segment whose whisper-cli process ended last.
FailedIndex(w) == Last(engine_log[w])[2]

\* C4 (RunSpec), as claimed: the error of a run whose engine failed on segment k
\* carries the 0-based index k.
C4_ReportsZeroBased ==
    \A w \in Workers : EngineFailed(w) => outcome[w].err.chunk = FailedIndex(w)

\* C4 (RunSpec), amended: the error of a run whose engine failed on the segment
\* with 0-based index k names that segment by its 1-based ordinal k+1
\* ("chunk 2" for segment 2 of 3), the run has failed, and whisper-cli was
\* never started for a segment after k.
C4_ReportsOrdinal ==
    \A w \in Workers :
        EngineFailed(w) =>
            /\ ~outcome[w].ok
            /\ outcome[w].err.chunk = FailedIndex(w) + 1
            /\ idx[w] = FailedIndex(w)
            /\ \A k \in DOMAIN engine_log[w] : engine_log[w][k][2] <= FailedIndex(w)
            /\ Len(engine_log[w]) = 2 * (FailedIndex(w) + 1)

C4_Witness ==
    /\ EngineFailed("w1")
    /\ FailedIndex("w1") = 0
    /\ Len(chunks["w1"]) >= 2

\* C5 (Spec): a run that aborts after a text artifact was read returns the
\* transcript read so far together with the error.
C5_PartialTranscriptReturned ==
    \A w \in Workers :
        (pc[w] = "returned" /\ ~outcome[w].ok /\ full_text[w] # <<>>) =>
            /\ outcome[w].err # NoErr
            /\ outcome[w].text = JoinText(full_text[w])

\* C6 (Spec): a run whose run_id is already taken fails fast, so every file of
\* a run directory was written by the run that made the directory.
C6_NoSharedRunDirectory ==
    \A p \in DOMAIN fs : fs[p] = dirs[p[1]]

\* C7 (HistSpec): after N completed runs, one after the other, each handed the
\* history the one before returned, the history is the min(N, 10) most recent
\* entries, most recent first.
C7_HistoryMostRecentTen ==
    LET expected == FirstN(Reverse(recorded), HistoryCap) IN
    /\ Len(expected) = Min(Len(recorded), 10)
    /\ (\A w \in Workers : pc[w] = "idle") => heap[history_state] = expected
    /\ \A w \in Workers :
         (pc[w] = "returned" /\ outcome[w].ok) =>
             /\ heap[outcome[w].history] = expected
             /\ outcome[w].history_md = expected

C7_Witness ==
    /\ pc["w1"] = "idle"
    /\ Len(recorded) = HistoryCap + 2
    /\ njobs = 2
    /\ Len(heap[history_state]) = HistoryCap
    /\ heap[history_state][1].time > heap[history_state][2].time

C9_EveryRunRecorded ==
    [][\A w \in Workers :
         (pc[w] # "returned" /\ pc'[w] = "returned" /\ pc[w] # "idle") =>
             /\ Len(recorded') = Len(recorded) + 1
             /\ Len(heap'[outcome'[w].history]) = Len(heap[history[w]]) + 1]_vars

\* C9 (HistRunSpec), amended: an invocation whose run completes adds exactly one
\* entry, that run's, at the front of the history it was handed (cut to 10);
\* an invocation whose run fails at any stage returns the history it was
\* handed with no entry added.
C9_CompletedRunsRecorded ==
    [][\A w \in Workers :
         (pc[w] # "returned" /\ pc'[w] = "returned") =>
             IF outcome'[w].ok
             THEN /\ Len(recorded') = Len(recorded) + 1
                  /\ Last(recorded').run_id = run_id[w]
                  /\ Last(recorded').source_desc = source[w]
                  /\ heap'[outcome'[w].history] =
                       FirstN(<<Last(recorded')>> \o heap[history[w]], HistoryCap)
             ELSE /\ recorded' = recorded
                  /\ heap' = heap
                  /\ outcome'[w].history = IF pc[w] = "idle" THEN history_state ELSE history[w]
                  /\ outcome'[w].history_md = <<>>]_vars

C9_Witness ==
    /\ pc["w1"] = "returned"
    /\ ~outcome["w1"].ok
    /\ outcome["w1"].err.exc = "RuntimeError"
    /\ Len(recorded) = 1
    /\ heap[outcome["w1"].history] = recorded

\* C10 (RunSpec): the fractions a run reports never decrease and lie in [0, 1];
\* a run that completes reports 1.0 last, and 1.0 is reported by no run that
\* fails (nor before the end of one that completes).
C10_ProgressMonotone ==
    \A w \in Workers :
        LET log == progress_log[w] IN
        /\ \A i \in DOMAIN log :
             /\ FracLeq(Frac(0, 1), log[i])
             /\ FracLeq(log[i], One)
             /\ i > 1 => FracLeq(log[i - 1], log[i])
             /\ FracEq(log[i], One) =>
                  i = Len(log) /\ pc[w] = "returned" /\ outcome[w].ok
        /\ (pc[w] = "returned" /\ outcome[w].ok) => log # <<>> /\ FracEq(Last(log), One)

C10_Witness ==
    /\ pc["w1"] = "returned"
    /\ outcome["w1"].ok
    /\ source["w1"] = "url"
    /\ Len(chunks["w1"]) >= 2
    /\ Len(progress_log["w1"]) = 3 + Len(chunks["w1"]) + 2

\* C11 (RunSpec): a call of transcribe that is given a source but no progress
\* reporter (progress is None) never fails for want of the reporter: what it
\* returns is what the same call returns with one.
C11_AbsentReporterTolerated ==
    \A w \in Workers :
        (pc[w] = "returned" /\ args[w].progress = "None" /\ Source(args[w]) # "none") =>
            outcome[w].err.exc # "TypeError"

\* The steps from one stage of transcribe to the next: source resolution
\* (download, for a URL only), normalization (extract), probe and split
\* (split, cut), the engine on each segment (loop, engine), aggregation at the
\* end of the loop, the optional rendering (pdf), the history update (record).
StageSteps ==
    { <<"idle", "download">>, <<"idle", "extract">>, <<"download", "extract">>,
      <<"extract", "probe">>, <<"probe", "split">>, <<"split", "cut">>,
      <<"split", "loop">>, <<"cut", "cut">>, <<"cut", "loop">>,
      <<"loop", "engine">>, <<"engine", "loop">>, <<"loop", "pdf">>,
      <<"loop", "record">>, <<"pdf", "record">>, <<"record", "returned">>,
      <<"returned", "idle">> }
\* The stages that can fail, and the early returns of an idle handler.
FailSteps ==
    { <<"idle", "returned">>, <<"download", "returned">>, <<"extract", "returned">>,
      <<"cut", "returned">>, <<"engine", "returned">>, <<"pdf", "returned">> }
Failed(w, exc) == pc[w] = "returned" /\ outcome[w].err.exc = exc
Transcoded(w) ==
    Len(progress_log[w]) > (IF source[w] = "url" THEN 2 ELSE 1)

\* C12 (RunSpec): the stages of a run follow one another in the order source
\* resolution (URL only), normalization, split, engine per segment,
\* aggregation, optional rendering, history update; the duration probe never
\* ends a run; a stage that fails ends the run at once, so that after a failed
\* download no transcode was attempted, after a failed transcode or split the
\* engine was never started, and after any failure nothing was rendered later
\* or written to the history.
C12_StagesInOrderFailFast ==
    /\ [][\A w \in Workers :
            /\ pc'[w] # pc[w] => <<pc[w], pc'[w]>> \in StageSteps \cup FailSteps
            /\ (pc[w] \in {"probe", "split"}) => pc'[w] # "returned"
            /\ (pc[w] = "returned") => pc'[w] \in {"returned", "idle"}
            /\ (pc[w] = "download") => source[w] = "url"]_vars
    /\ [](\A w \in Workers :
            /\ Failed(w, "DownloadError") =>
                 ~Transcoded(w) /\ ~Exists(fs, RunFile(run_id[w], "audio", 0))
            /\ (Failed(w, "DownloadError") \/ Failed(w, "CalledProcessError")) =>
                 engine_log[w] = <<>> /\ cmd[w] = NoCmd
            /\ (pc[w] = "returned" /\ ~outcome[w].ok) =>
                 /\ heap[outcome[w].history] = heap[history_state]
                 /\ \A k \in DOMAIN recorded : recorded[k].run_id # run_id[w] \/ recorded[k].time < 0
                 /\ outcome[w].err.exc # "PdfError" => pdf_file[w] = NoPath
            /\ engine_log[w] # <<>> =>
                 /\ Transcoded(w)
                 /\ chunks[w] # <<>>
                 /\ Exists(fs, RunFile(run_id[w], "audio", 0))
            /\ pc[w] \in {"pdf", "record"} => idx[w] = Len(chunks[w]))

C12_Witness ==
    /\ Failed("w1", "CalledProcessError")
    /\ Len(cuts["w1"]) = 2
    /\ Len(chunks["w1"]) = 1
    /\ engine_log["w1"] = <<>>

Stages ==
    {"idle", "download", "extract", "probe", "split", "cut", "loop", "engine", "pdf",
     "record", "returned"}
FailureKinds ==
    {"BinaryMissing", "ModelMissing", "TypeError", "NoInput", "DownloadError",
     "CalledProcessError", "RuntimeError", "PdfError"}

\* C13 (RunSpec): no failure of a stage leaves transcribe as an exception:
\* a call is in one of its stages until it returns, it returns a tuple, and
\* the tuple of a failed call carries an error message and no artifact
\* reference (no text file, subtitles, document or JSON, an empty history
\* text), while the tuple of a completed call carries no error.
C13_FailuresReturned ==
    \A w \in Workers :
        /\ pc[w] \in Stages
        /\ pc[w] = "returned" <=> outcome[w] # NoOutcome
        /\ pc[w] = "returned" =>
             IF outcome[w].ok
             THEN outcome[w].err = NoErr /\ outcome[w].text # <<>>
             ELSE /\ outcome[w].err.exc \in FailureKinds
                  /\ outcome[w].txt = NoPath
                  /\ outcome[w].srt = NoPath
                  /\ outcome[w].pdf = NoPath
                  /\ outcome[w].json = NoPath
                  /\ outcome[w].history_md = <<>>
                  /\ outcome[w].history = history[w]

C13_Witness ==
    /\ Failed("w1", "PdfError")
    /\ txt_files["w1"] # <<>>
    /\ srt_files["w1"] # <<>>
    /\ outcome["w1"].txt = NoPath

\* C14 (RunSpec): a failed duration probe never ends the run: the probe yields
\* 0 and the run goes on; whenever the duration split_long_audio probed is
\* <= 0 or <= the threshold, the split returns the normalized audio path
\* itself as its only segment, cuts nothing and creates no chunk file, and
\* the engine is then run on that path.
C14_ProbeFailureTolerated ==
    /\ [][\A w \in Workers :
            /\ pc[w] = "probe" =>
                 /\ pc'[w] \in {"probe", "split"}
                 /\ duration'[w] \in {duration[w], dur[w], 0}
            /\ pc[w] = "split" =>
                 /\ pc'[w] \in {"split", "loop", "cut"}
                 /\ split_duration'[w] \in {split_duration[w], dur[w], 0}]_vars
    /\ [](\A w \in Workers :
            LET single == split_duration[w] <= 0 \/ split_duration[w] <= max_chunk_sec[w]
                audio_path == RunFile(run_id[w], "audio", 0)
            IN /\ pc[w] = "cut" => ~single
               /\ (pc[w] \in {"loop", "engine", "pdf", "record"} /\ single) =>
                    /\ chunks[w] = <<audio_path>>
                    /\ cuts[w] = <<>>
                    /\ \A p \in DOMAIN fs : p[2] # "chunk"
               /\ (pc[w] = "engine" /\ single) => cmd[w].f = audio_path)

C14_Witness ==
    /\ pc["w1"] = "returned"
    /\ outcome["w1"].ok
    /\ dur["w1"] > max_chunk_sec["w1"]
    /\ split_duration["w1"] = 0
    /\ duration["w1"] = 0
    /\ chunks["w1"] = <<RunFile(run_id["w1"], "audio", 0)>>
    /\ txt_files["w1"] # <<>>

\* The text artifacts transcript_000.txt .. transcript_(n-1).txt of a run that
\* exist, by increasing segment index, each with the segment it belongs to.
RECURSIVE TextsUpTo(_, _)
TextsUpTo(w, n) ==
    IF n = 0 THEN <<>>
    ELSE LET p == RunFile(run_id[w], "txt", n - 1) IN
         TextsUpTo(w, n - 1) \o
             (IF Exists(fs, p) THEN <<[by |-> fs[p], seg |-> n - 1]>> ELSE <<>>)
\* The texts with one blank line between two neighbours.
BlankLineBetween(texts) ==
    [i \in 1..(2 * Len(texts) - 1) |-> IF i % 2 = 1 THEN texts[(i + 1) \div 2] ELSE "\n\n"]

\* C15 (RunSpec): the transcript a run aggregates is the contents of the text
\* artifacts that exist, by increasing segment index, with a blank line
\* between two of them and nothing (no placeholder, no separator) for a
\* segment whose text artifact is missing; the texts are collected in segment
\* order as the loop goes.
C15_TranscriptJoinedInOrder ==
    \A w \in Workers :
        /\ pc[w] \in {"loop", "pdf", "record"} => full_text[w] = TextsUpTo(w, idx[w])
        /\ \A i \in DOMAIN full_text[w] :
             i > 1 => full_text[w][i - 1].seg < full_text[w][i].seg
        /\ (pc[w] = "returned" /\ outcome[w].ok) =>
             LET texts == TextsUpTo(w, Len(chunks[w])) IN
             /\ Len(txt_files[w]) = Len(texts)
             /\ outcome[w].text =
                  IF texts = <<>> THEN <<"(Transcription vide)">> ELSE BlankLineBetween(texts)

C15_Witness ==
    /\ pc["w1"] = "returned"
    /\ outcome["w1"].ok
    /\ Len(chunks["w1"]) = 2
    /\ ~Exists(fs, RunFile(run_id["w1"], "txt", 0))
    /\ Exists(fs, RunFile(run_id["w1"], "txt", 1))
    /\ outcome["w1"].text = <<[by |-> 1, seg |-> 1]>>

\* The places of a string that hold something other than a blank.
NonBlank(s) == {i \in DOMAIN s : s[i] # Space}
\* The string from its first to its last non-blank character.
Trimmed(s) ==
    LET first == CHOOSE i \in NonBlank(s) : \A j \in NonBlank(s) : i <= j
        last == CHOOSE i \in NonBlank(s) : \A j \in NonBlank(s) : i >= j
    IN SubSeq(s, first, last)
HintGiven(s) == s # None /\ NonBlank(s) # {}

\* C16 (CmdSpec): the command of every segment carries the language argument
\* exactly when the language hint is not empty once trimmed; an empty,
\* blank-only or absent hint gives a command with no language argument at all
\* (never an empty value), and a hint that is given is passed trimmed.
C16_LanguageArgument ==
    \A w \in Workers :
        cmd[w] # NoCmd =>
            /\ HintGiven(args[w].language) <=> cmd[w].l # <<>>
            /\ Len(cmd[w].l) <= 1
            /\ \A i \in DOMAIN cmd[w].l : cmd[w].l[i] # <<>>
            /\ HintGiven(args[w].language) => cmd[w].l = <<Trimmed(args[w].language)>>
            /\ pc[w] = "engine" => cmd[w].f = chunks[w][idx[w] + 1]

C16_Witness ==
    /\ pc["w1"] = "engine"
    /\ idx["w1"] = 1
    /\ args["w1"].language = <<Space, "f", Space>>
    /\ cmd["w1"].l = << <<"f">> >>

\* Every path a call holds: its source, the normalized audio's segments and
\* the artifacts it has collected.
Held(w) ==
    {p \in {input_path[w], pdf_file[w]} : p # NoPath /\ p # Upload}
        \cup {chunks[w][i] : i \in DOMAIN chunks[w]}
        \cup {txt_files[w][i] : i \in DOMAIN txt_files[w]}
        \cup {srt_files[w][i] : i \in DOMAIN srt_files[w]}
        \cup {json_files[w][i] : i \in DOMAIN json_files[w]}
\* The files the next step of a call writes.
AboutToWrite(w) ==
    IF pc[w] = "download" THEN {RunFile(run_id[w], "yt_audio", 0)}
    ELSE IF pc[w] = "extract" THEN {RunFile(run_id[w], "audio", 0)}
    ELSE IF pc[w] = "cut" THEN {RunFile(run_id[w], "chunk", Len(chunks[w]))}
    ELSE IF pc[w] = "engine" THEN {WithSuffix(cmd[w].of, k) : k \in {"txt", "srt", "json"}}
    ELSE IF pc[w] = "pdf" THEN {RunFile(run_id[w], "pdf", 0)}
    ELSE {}

C18_EveryRunReturns ==
    \A w \in Workers : (pc[w] # "idle") ~> (pc[w] = "returned")

\* C19 (Spec): a run returns (or counts) a subtitle or JSON artifact only if
\* that kind was asked for in the same call and the file was written by that
\* call's own whisper-cli processes, never a file an earlier run left in the
\* directory, an earlier run with the same run_id included.
C19_OwnRequestedArtifactsOnly ==
    \A w \in Workers :
        /\ \A i \in DOMAIN srt_files[w] :
             args[w].make_srt /\ fs[srt_files[w][i]] = job[w]
        /\ \A i \in DOMAIN json_files[w] :
             args[w].make_json /\ fs[json_files[w][i]] = job[w]
        /\ (pc[w] = "returned" /\ outcome[w].srt # NoPath) =>
             args[w].make_srt /\ fs[outcome[w].srt] = job[w]
        /\ (pc[w] = "returned" /\ outcome[w].json # NoPath) =>
             args[w].make_json /\ fs[outcome[w].json] = job[w]

\* A URL that is given and is not blank.
UrlGiven(a) == a.youtube_url # None /\ NonBlank(a.youtube_url) # {}
EarlyReturn(w) ==
    pc[w] = "returned" /\ outcome[w].err.exc \in {"NoInput", "BinaryMissing", "ModelMissing"}

\* C20 (RunSpec): a URL that is not blank is the source of the run, and the
\* uploaded file is never used, even when both are given; a call that is given
\* neither a non-blank URL nor a file, or that finds the engine binary or the
\* model missing, returns an error message with the history it was handed,
\* having created no run directory, written no file, started no external tool
\* and reported no progress of 1.0.
C20_InputSelection ==
    /\ [][\A w \in Workers :
            (pc[w] = "idle" /\ pc'[w] # "idle") =>
                LET a == args'[w] IN
                /\ history'[w] = history_state
                /\ pc'[w] = "download" <=>
                     UrlGiven(a) /\ outcome'[w].err = NoErr
                /\ pc'[w] = "extract" <=>
                     ~UrlGiven(a) /\ a.media_file # NoPath /\ outcome'[w].err = NoErr
                /\ pc'[w] = "returned" <=> outcome'[w].err # NoErr
                /\ (~UrlGiven(a) /\ a.media_file = NoPath) => pc'[w] = "returned"
                /\ pc'[w] = "returned" =>
                     outcome'[w].err.exc \in
                         {"BinaryMissing", "ModelMissing", "TypeError"}
                             \cup {e \in {"NoInput"} : ~UrlGiven(a) /\ a.media_file = NoPath}]_vars
    /\ [](\A w \in Workers :
            /\ (UrlGiven(args[w]) /\ pc[w] # "idle") =>
                 /\ input_path[w] # Upload
                 /\ source[w] \in {"url", "none"}
                 /\ pc[w] = "engine" => cmd[w].f # Upload
            /\ EarlyReturn(w) =>
                 /\ ~outcome[w].ok
                 /\ outcome[w].history = history_state
                 /\ heap = (0 :> <<>>)
                 /\ recorded = <<>>
                 /\ \A r \in DOMAIN dirs : dirs[r] # job[w]
                 /\ \A p \in DOMAIN fs : fs[p] # job[w]
                 /\ cuts[w] = <<>>
                 /\ engine_log[w] = <<>>
                 /\ \A i \in DOMAIN progress_log[w] : ~FracEq(progress_log[w][i], One))

C20_Witness ==
    /\ pc["w1"] = "extract"
    /\ args["w1"].media_file = Upload
    /\ args["w1"].youtube_url = <<Space, "u", Space>>
    /\ input_path["w1"] = RunFile(run_id["w1"], "yt_audio", 0)

====
